---- MODULE Spec2Model ----
(***************************************************************************)
(* Model of actix-tls/src/connect/connector.rs: the TCP connector service  *)
(* (TcpConnectorFactory, TcpConnector) and its response future             *)
(* TcpConnectorResponse<T>, the multi-address failover state machine.      *)
(*                                                                         *)
(* Option<X> is modelled as a sequence of length <= 1: <<>> is None and    *)
(* <<x>> is Some(x).  The `port` field is only read by trace!() and is not *)
(* modelled.  Every variable is a function over Inst, one entry per        *)
(* TcpConnectorResponse instance.                                          *)
(***************************************************************************)
EXTENDS Naturals, Sequences, FiniteSets

\* ------------------------------------------------------------------ bounds
NumAddr == 3      \* distinct socket addresses 1..NumAddr
MaxQueue == 3     \* longest VecDeque<SocketAddr> handed to the connector
NumReq == 2       \* distinct request values T
PairQueue == 2    \* longest queue used when two futures run together

Addr == 1..NumAddr
Reqs == 1..NumReq
Inst == {1, 2}
Solo == {1}

RECURSIVE SeqsUpTo(_, _)
SeqsUpTo(S, n) ==
    IF n = 0 THEN {<<>>}
    ELSE LET shorter == SeqsUpTo(S, n - 1)
         IN  shorter \cup {Append(q, a) : q \in {s \in shorter : Len(s) = n - 1}, a \in S}

Queues == SeqsUpTo(Addr, MaxQueue)

\* ConnectAddrs: None | One(SocketAddr) | Multi(VecDeque<SocketAddr>)
ConnectAddrs ==
    {[kind |-> "None", addrs |-> <<>>]}
    \cup {[kind |-> "One", addrs |-> <<a>>] : a \in Addr}
    \cup {[kind |-> "Multi", addrs |-> q] : q \in Queues}

\* what the transport does with a connect to each address
Fates == [Addr -> {"ok", "err"}]

\* Poll::Ready values of the response future
OkConnection(a, r) == [tag |-> "Ok", addr |-> a, req |-> r]
ErrIo(a) == [tag |-> "Io", addr |-> a, req |-> 0]
ErrUnresolved == [tag |-> "Unresolved", addr |-> 0, req |-> 0]

\* the future returned by TcpStream::connect(addr); nothing has polled it yet
Connect(a) == [addr |-> a, st |-> "waiting", polled |-> FALSE]

VARIABLES
    variant,   \* "Uncalled" | "Response" | "Error" | "Dropped"
    req,       \* Response.req : Option<T>
    addrs,     \* Response.addrs : Option<VecDeque<SocketAddr>>
    stream,    \* Response.stream : Option<ReusableBoxFuture<..>>
    err,       \* Error.0 : Option<ConnectError>
    pc,        \* "uncalled" | "idle" | "loop" | "try" | "panicked" | "dropped"
    desc,      \* history: the ConnectAddrs given to call
    given,     \* history: the request given to call
    fate,      \* the transport's answer for each address
    attempts,  \* history: addresses TcpStream::connect was called on, in order
    outcomes,  \* history: "ok"/"err" of each attempt whose future returned Ready
    results,   \* history: Poll::Ready values the response future returned
    polled,    \* history: poll was called at least once
    lastPoll,  \* history: what the latest finished poll returned
    suspended  \* history: some poll returned Pending

vars == <<variant, req, addrs, stream, err, pc, desc, given, fate,
          attempts, outcomes, results, polled, lastPoll, suspended>>

hist == <<desc, given, fate>>

Init ==
    /\ variant = [i \in Inst |-> "Uncalled"]
    /\ req = [i \in Inst |-> <<>>]
    /\ addrs = [i \in Inst |-> <<>>]
    /\ stream = [i \in Inst |-> <<>>]
    /\ err = [i \in Inst |-> <<>>]
    /\ pc = [i \in Inst |-> "uncalled"]
    /\ desc = [i \in Inst |-> [kind |-> "None", addrs |-> <<>>]]
    /\ given = [i \in Inst |-> 0]
    /\ fate = [i \in Inst |-> [a \in Addr |-> "err"]]
    /\ attempts = [i \in Inst |-> <<>>]
    /\ outcomes = [i \in Inst |-> <<>>]
    /\ results = [i \in Inst |-> <<>>]
    /\ polled = [i \in Inst |-> FALSE]
    /\ lastPoll = [i \in Inst |-> "none"]
    /\ suspended = [i \in Inst |-> FALSE]

\* ------------------------------------------------- TcpConnectorResponse::new
\* mutant: the constructor pops the first address of a queue and connects to it
NewEager(r, addr) ==
    IF addr.kind = "None"
    THEN [variant |-> "Error", req |-> <<>>, addrs |-> <<>>, stream |-> <<>>,
          err |-> <<"Unresolved">>, started |-> <<>>]
    ELSE IF addr.kind = "One" \/ addr.addrs # <<>>
    THEN [variant |-> "Response", req |-> <<r>>,
          addrs |-> IF addr.kind = "One" THEN <<>> ELSE <<Tail(addr.addrs)>>,
          stream |-> <<Connect(addr.addrs[1])>>, err |-> <<>>,
          started |-> <<addr.addrs[1]>>]
    ELSE [variant |-> "Response", req |-> <<r>>, addrs |-> <<addr.addrs>>,
          stream |-> <<>>, err |-> <<>>, started |-> <<>>]

\* mutant: the is_none() check is missing, an unresolved address becomes an
\* empty queue
NewNoCheck(r, addr) ==
    IF addr.kind = "One"
    THEN [variant |-> "Response", req |-> <<r>>, addrs |-> <<>>,
          stream |-> <<Connect(addr.addrs[1])>>, err |-> <<>>,
          started |-> <<addr.addrs[1]>>]
    ELSE [variant |-> "Response", req |-> <<r>>, addrs |-> <<addr.addrs>>,
          stream |-> <<>>, err |-> <<>>, started |-> <<>>]

\* mutant: a single address is put in a queue of one instead of the slot
NewQueued(r, addr) ==
    IF addr.kind = "None"
    THEN [variant |-> "Error", req |-> <<>>, addrs |-> <<>>, stream |-> <<>>,
          err |-> <<"Unresolved">>, started |-> <<>>]
    ELSE [variant |-> "Response", req |-> <<r>>, addrs |-> <<addr.addrs>>,
          stream |-> <<>>, err |-> <<>>, started |-> <<>>]

\* The fields of the constructed future, and the addresses TcpStream::connect
\* was called on while constructing it (`started`).  addr.is_none() holds of
\* ConnectAddrs::None only (line 88: "none variant already checked").
New(r, addr) ==
    IF addr.kind = "None"
    THEN [variant |-> "Error", req |-> <<>>, addrs |-> <<>>, stream |-> <<>>,
          err |-> <<"Unresolved">>, started |-> <<>>]
    ELSE IF addr.kind = "One"
    THEN [variant |-> "Response", req |-> <<r>>, addrs |-> <<>>,
          stream |-> <<Connect(addr.addrs[1])>>, err |-> <<>>,
          started |-> <<addr.addrs[1]>>]
    ELSE [variant |-> "Response", req |-> <<r>>, addrs |-> <<addr.addrs>>,
          stream |-> <<>>, err |-> <<>>, started |-> <<>>]

\* ---------------------------------------------------------- TcpConnector::call
CallWith(i, r, addr, f) ==
    /\ pc[i] = "uncalled"
    /\ LET n == New(r, addr)
       IN  /\ variant' = [variant EXCEPT ![i] = n.variant]
           /\ req' = [req EXCEPT ![i] = n.req]
           /\ addrs' = [addrs EXCEPT ![i] = n.addrs]
           /\ stream' = [stream EXCEPT ![i] = n.stream]
           /\ err' = [err EXCEPT ![i] = n.err]
           /\ attempts' = [attempts EXCEPT ![i] = n.started]
    /\ pc' = [pc EXCEPT ![i] = "idle"]
    /\ desc' = [desc EXCEPT ![i] = addr]
    /\ given' = [given EXCEPT ![i] = r]
    /\ fate' = [fate EXCEPT ![i] = f]
    /\ UNCHANGED <<outcomes, results, polled, lastPoll, suspended>>

Call(i) ==
    /\ pc[i] = "uncalled"
    /\ \E r \in Reqs, addr \in ConnectAddrs, f \in Fates : CallWith(i, r, addr, f)

\* ------------------------------------------------ TcpConnectorResponse::poll
\* a panic unwinds out of poll
Panic(i) ==
    /\ pc' = [pc EXCEPT ![i] = "panicked"]
    /\ lastPoll' = [lastPoll EXCEPT ![i] = "panic"]
    /\ UNCHANGED suspended

Return(i, p) ==
    /\ pc' = [pc EXCEPT ![i] = "idle"]
    /\ lastPoll' = [lastPoll EXCEPT ![i] = p]
    /\ suspended' = [suspended EXCEPT ![i] = @ \/ p = "Pending"]

\* mutant: the error is copied out instead of taken, every poll returns it
PollErrorNoTake(i) ==
    /\ pc[i] = "idle"
    /\ variant[i] = "Error"
    /\ polled' = [polled EXCEPT ![i] = TRUE]
    /\ Return(i, "Ready")
    /\ results' = [results EXCEPT ![i] = Append(@, ErrUnresolved)]
    /\ UNCHANGED <<variant, req, addrs, stream, err, attempts, outcomes>>
    /\ UNCHANGED hist

\* poll entered on the Error variant: err.take().unwrap()
PollError(i) ==
    /\ pc[i] = "idle"
    /\ variant[i] = "Error"
    /\ polled' = [polled EXCEPT ![i] = TRUE]
    /\ err' = [err EXCEPT ![i] = <<>>]
    /\ IF err[i] = <<>>
       THEN Panic(i) /\ UNCHANGED results
       ELSE /\ Return(i, "Ready")
            /\ results' = [results EXCEPT ![i] = Append(@, ErrUnresolved)]
    /\ UNCHANGED <<variant, req, addrs, stream, attempts, outcomes>>
    /\ UNCHANGED hist

\* poll entered on the Response variant: control reaches the head of the loop
PollResponse(i) ==
    /\ pc[i] = "idle"
    /\ variant[i] = "Response"
    /\ polled' = [polled EXCEPT ![i] = TRUE]
    /\ pc' = [pc EXCEPT ![i] = "loop"]
    /\ UNCHANGED <<variant, req, addrs, stream, err, attempts, outcomes, results,
                   lastPoll, suspended>>
    /\ UNCHANGED hist

\* loop head with an empty slot: fall through to "try to connect"
StreamAbsent(i) ==
    /\ pc[i] = "loop"
    /\ stream[i] = <<>>
    /\ pc' = [pc EXCEPT ![i] = "try"]
    /\ UNCHANGED <<variant, req, addrs, stream, err, attempts, outcomes, results,
                   polled, lastPoll, suspended>>
    /\ UNCHANGED hist

\* mutant: ready! is missing, a pending attempt falls through to the next address
StreamPendingFallThrough(i) ==
    /\ pc[i] = "loop"
    /\ stream[i] # <<>>
    /\ stream[i][1].st = "waiting"
    /\ stream' = [stream EXCEPT ![i] = <<[@[1] EXCEPT !.polled = TRUE]>>]
    /\ IF addrs[i] = <<>> \/ addrs[i][1] = <<>>
       THEN Return(i, "Pending")
       ELSE pc' = [pc EXCEPT ![i] = "try"] /\ UNCHANGED <<lastPoll, suspended>>
    /\ UNCHANGED <<variant, req, addrs, err, attempts, outcomes, results, polled>>
    /\ UNCHANGED hist

\* ready!(new.poll(cx)) on an attempt that has not completed: return Pending
StreamPending(i) ==
    /\ pc[i] = "loop"
    /\ stream[i] # <<>>
    /\ stream[i][1].st = "waiting"
    /\ stream' = [stream EXCEPT ![i] = <<[@[1] EXCEPT !.polled = TRUE]>>]
    /\ Return(i, "Pending")
    /\ UNCHANGED <<variant, req, addrs, err, attempts, outcomes, results, polled>>
    /\ UNCHANGED hist

\* new.poll(cx) on a connect future that already returned Ready: an async fn
\* resumed after completion panics
StreamResumed(i) ==
    /\ pc[i] = "loop"
    /\ stream[i] # <<>>
    /\ stream[i][1].st = "done"
    /\ Panic(i)
    /\ UNCHANGED <<variant, req, addrs, stream, err, attempts, outcomes, results,
                   polled>>
    /\ UNCHANGED hist

\* mutant: the return is missing, a success with addresses left goes on to
\* the next address
StreamOkNoReturn(i) ==
    /\ pc[i] = "loop"
    /\ stream[i] # <<>>
    /\ stream[i][1].st = "ready"
    /\ fate[i][stream[i][1].addr] = "ok"
    /\ stream' = [stream EXCEPT ![i] = <<[@[1] EXCEPT !.st = "done", !.polled = TRUE]>>]
    /\ outcomes' = [outcomes EXCEPT ![i] = Append(@, "ok")]
    /\ IF addrs[i] = <<>> \/ addrs[i][1] = <<>>
       THEN /\ req' = [req EXCEPT ![i] = <<>>]
            /\ Return(i, "Ready")
            /\ results' = [results EXCEPT ![i] =
                              Append(@, OkConnection(stream[i][1].addr, req[i][1]))]
       ELSE /\ pc' = [pc EXCEPT ![i] = "try"]
            /\ UNCHANGED <<req, results, lastPoll, suspended>>
    /\ UNCHANGED <<variant, addrs, err, attempts, polled>>
    /\ UNCHANGED hist

\* the attempt returned Ok(sock): req.take().unwrap(), Ready(Ok(Connection))
StreamOk(i) ==
    /\ pc[i] = "loop"
    /\ stream[i] # <<>>
    /\ stream[i][1].st = "ready"
    /\ fate[i][stream[i][1].addr] = "ok"
    /\ stream' = [stream EXCEPT ![i] = <<[@[1] EXCEPT !.st = "done", !.polled = TRUE]>>]
    /\ outcomes' = [outcomes EXCEPT ![i] = Append(@, "ok")]
    /\ req' = [req EXCEPT ![i] = <<>>]
    /\ IF req[i] = <<>>
       THEN Panic(i) /\ UNCHANGED results
       ELSE /\ Return(i, "Ready")
            /\ results' = [results EXCEPT ![i] =
                              Append(@, OkConnection(stream[i][1].addr, req[i][1]))]
    /\ UNCHANGED <<variant, addrs, err, attempts, polled>>
    /\ UNCHANGED hist

\* mutant: the first I/O error is returned although addresses remain
StreamErrNoFailover(i) ==
    /\ pc[i] = "loop"
    /\ stream[i] # <<>>
    /\ stream[i][1].st = "ready"
    /\ fate[i][stream[i][1].addr] = "err"
    /\ stream' = [stream EXCEPT ![i] = <<[@[1] EXCEPT !.st = "done", !.polled = TRUE]>>]
    /\ outcomes' = [outcomes EXCEPT ![i] = Append(@, "err")]
    /\ Return(i, "Ready")
    /\ results' = [results EXCEPT ![i] = Append(@, ErrIo(stream[i][1].addr))]
    /\ UNCHANGED <<variant, req, addrs, err, attempts, polled>>
    /\ UNCHANGED hist

\* mutant: the trace of a failed attempt takes the request (req.take()) instead
\* of borrowing it
StreamErrTakesReq(i) ==
    /\ pc[i] = "loop"
    /\ stream[i] # <<>>
    /\ stream[i][1].st = "ready"
    /\ fate[i][stream[i][1].addr] = "err"
    /\ stream' = [stream EXCEPT ![i] = <<[@[1] EXCEPT !.st = "done", !.polled = TRUE]>>]
    /\ outcomes' = [outcomes EXCEPT ![i] = Append(@, "err")]
    /\ req' = [req EXCEPT ![i] = <<>>]
    /\ IF req[i] = <<>>
       THEN Panic(i) /\ UNCHANGED results
       ELSE IF addrs[i] = <<>> \/ addrs[i][1] = <<>>
       THEN /\ Return(i, "Ready")
            /\ results' = [results EXCEPT ![i] = Append(@, ErrIo(stream[i][1].addr))]
       ELSE /\ pc' = [pc EXCEPT ![i] = "try"]
            /\ UNCHANGED <<results, lastPoll, suspended>>
    /\ UNCHANGED <<variant, addrs, err, attempts, polled>>
    /\ UNCHANGED hist

\* the attempt returned Err(err): req.as_ref().unwrap() for the trace, then
\* Ready(Err(Io(err))) when no address is left, else on to "try to connect"
StreamErr(i) ==
    /\ pc[i] = "loop"
    /\ stream[i] # <<>>
    /\ stream[i][1].st = "ready"
    /\ fate[i][stream[i][1].addr] = "err"
    /\ stream' = [stream EXCEPT ![i] = <<[@[1] EXCEPT !.st = "done", !.polled = TRUE]>>]
    /\ outcomes' = [outcomes EXCEPT ![i] = Append(@, "err")]
    /\ IF req[i] = <<>>
       THEN Panic(i) /\ UNCHANGED results
       ELSE IF addrs[i] = <<>> \/ addrs[i][1] = <<>>
       THEN /\ Return(i, "Ready")
            /\ results' = [results EXCEPT ![i] = Append(@, ErrIo(stream[i][1].addr))]
       ELSE /\ pc' = [pc EXCEPT ![i] = "try"]
            /\ UNCHANGED <<results, lastPoll, suspended>>
    /\ UNCHANGED <<variant, req, addrs, err, attempts, polled>>
    /\ UNCHANGED hist

\* mutant: the next address is taken from the back of the queue
TryConnectBack(i) ==
    /\ pc[i] = "try"
    /\ IF addrs[i] = <<>> \/ addrs[i][1] = <<>>
       THEN Panic(i) /\ UNCHANGED <<addrs, stream, attempts>>
       ELSE LET q == addrs[i][1]
                addr == q[Len(q)]
            IN  /\ addrs' = [addrs EXCEPT ![i] = <<SubSeq(q, 1, Len(q) - 1)>>]
                /\ stream' = [stream EXCEPT ![i] = <<Connect(addr)>>]
                /\ attempts' = [attempts EXCEPT ![i] = Append(@, addr)]
                /\ pc' = [pc EXCEPT ![i] = "loop"]
                /\ UNCHANGED <<lastPoll, suspended>>
    /\ UNCHANGED <<variant, req, err, outcomes, results, polled>>
    /\ UNCHANGED hist

\* mutant: poll returns Pending right after starting the next attempt, without
\* going round the loop to poll it
TryConnectYield(i) ==
    /\ pc[i] = "try"
    /\ IF addrs[i] = <<>> \/ addrs[i][1] = <<>>
       THEN Panic(i) /\ UNCHANGED <<addrs, stream, attempts>>
       ELSE LET addr == Head(addrs[i][1])
            IN  /\ addrs' = [addrs EXCEPT ![i] = <<Tail(@[1])>>]
                /\ stream' = [stream EXCEPT ![i] = <<Connect(addr)>>]
                /\ attempts' = [attempts EXCEPT ![i] = Append(@, addr)]
                /\ Return(i, "Pending")
    /\ UNCHANGED <<variant, req, err, outcomes, results, polled>>
    /\ UNCHANGED hist

\* mutant: the queue is shared by all futures: whichever future reaches "try to
\* connect" pops the queue of the first future while that queue has addresses
TryConnectShared(i) ==
    /\ pc[i] = "try"
    /\ LET o == IF addrs[1] # <<>> /\ addrs[1][1] # <<>> THEN 1 ELSE i
       IN  IF addrs[o] = <<>> \/ addrs[o][1] = <<>>
           THEN Panic(i) /\ UNCHANGED <<addrs, stream, attempts>>
           ELSE LET addr == Head(addrs[o][1])
                IN  /\ addrs' = [addrs EXCEPT ![o] = <<Tail(@[1])>>]
                    /\ stream' = [stream EXCEPT ![i] = <<Connect(addr)>>]
                    /\ attempts' = [attempts EXCEPT ![i] = Append(@, addr)]
                    /\ pc' = [pc EXCEPT ![i] = "loop"]
                    /\ UNCHANGED <<lastPoll, suspended>>
    /\ UNCHANGED <<variant, req, err, outcomes, results, polled>>
    /\ UNCHANGED hist

\* "try to connect": addrs.as_mut().unwrap().pop_front().unwrap(), then the
\* slot is set to TcpStream::connect(addr) and the loop goes round
TryConnect(i) ==
    /\ pc[i] = "try"
    /\ IF addrs[i] = <<>> \/ addrs[i][1] = <<>>
       THEN Panic(i) /\ UNCHANGED <<addrs, stream, attempts>>
       ELSE LET addr == Head(addrs[i][1])
            IN  /\ addrs' = [addrs EXCEPT ![i] = <<Tail(@[1])>>]
                /\ stream' = [stream EXCEPT ![i] = <<Connect(addr)>>]
                /\ attempts' = [attempts EXCEPT ![i] = Append(@, addr)]
                /\ pc' = [pc EXCEPT ![i] = "loop"]
                /\ UNCHANGED <<lastPoll, suspended>>
    /\ UNCHANGED <<variant, req, err, outcomes, results, polled>>
    /\ UNCHANGED hist

\* ------------------------------------------------------------ the transport
\* the connect of the attempt in the slot completes; its next poll is Ready
ConnectCompletes(i) ==
    /\ stream[i] # <<>>
    /\ stream[i][1].st = "waiting"
    /\ stream' = [stream EXCEPT ![i] = <<[@[1] EXCEPT !.st = "ready"]>>]
    /\ UNCHANGED <<variant, req, addrs, err, pc, attempts, outcomes, results,
                   polled, lastPoll, suspended>>
    /\ UNCHANGED hist

\* ------------------------------------------------------------------- drop
\* mutant: the future is forgotten, its fields are never dropped
DropLeak(i) ==
    /\ pc[i] = "idle"
    /\ variant' = [variant EXCEPT ![i] = "Dropped"]
    /\ pc' = [pc EXCEPT ![i] = "dropped"]
    /\ UNCHANGED <<req, addrs, stream, err, attempts, outcomes, results, polled,
                   lastPoll, suspended>>
    /\ UNCHANGED hist

\* The caller drops the future between polls.  TcpConnectorResponse has no
\* Drop impl: its owned fields are dropped, the boxed connect future with them.
Drop(i) ==
    /\ pc[i] = "idle"
    /\ variant' = [variant EXCEPT ![i] = "Dropped"]
    /\ pc' = [pc EXCEPT ![i] = "dropped"]
    /\ req' = [req EXCEPT ![i] = <<>>]
    /\ addrs' = [addrs EXCEPT ![i] = <<>>]
    /\ stream' = [stream EXCEPT ![i] = <<>>]
    /\ err' = [err EXCEPT ![i] = <<>>]
    /\ UNCHANGED <<attempts, outcomes, results, polled, lastPoll, suspended>>
    /\ UNCHANGED hist

\* --------------------------------------------------------- specification
Step(i) ==
    \/ Call(i)
    \/ PollError(i)
    \/ PollResponse(i)
    \/ StreamAbsent(i)
    \/ StreamPending(i)
    \/ StreamResumed(i)
    \/ StreamOk(i)
    \/ StreamErr(i)
    \/ TryConnect(i)
    \/ ConnectCompletes(i)
    \/ Drop(i)

Next == \E i \in Solo : Step(i)

Spec == Init /\ [][Next]_vars

\* ------------------------------------------- specification with fairness
\* a step of poll
PollStep(i) ==
    \/ PollError(i)
    \/ PollResponse(i)
    \/ StreamAbsent(i)
    \/ StreamPending(i)
    \/ StreamResumed(i)
    \/ StreamOk(i)
    \/ StreamErr(i)
    \/ TryConnect(i)

\* the caller's scheduler drives a future that has not delivered its result
Drive(i) == results[i] = <<>> /\ PollStep(i)

\* the future is never dropped: it is polled to completion
LiveNext == \E i \in Solo : Call(i) \/ PollStep(i) \/ ConnectCompletes(i)

\* poll runs on and the scheduler polls again until the result is delivered;
\* every connect that was started completes
LiveSpec ==
    /\ Init
    /\ [][LiveNext]_vars
    /\ \A i \in Solo : WF_vars(Drive(i)) /\ WF_vars(ConnectCompletes(i))

\* --------------------------------------------- two futures side by side
\* TcpConnectorFactory::service() and TcpConnector are unit values: each call
\* builds a future from its arguments alone.  Two futures, each from its own
\* connector, are polled and dropped interleaved; future i carries request i.
PairAddrs == {1, 2}

PairConnectAddrs ==
    {[kind |-> "None", addrs |-> <<>>]}
    \cup {[kind |-> "One", addrs |-> <<a>>] : a \in PairAddrs}
    \cup {[kind |-> "Multi", addrs |-> q] : q \in SeqsUpTo(PairAddrs, PairQueue)}

\* the transport's answers that differ on the addresses of descriptor d only
PairFates(d) ==
    {f \in Fates : \A a \in Addr : (\A j \in 1..Len(d.addrs) : d.addrs[j] # a) => f[a] = "err"}

CallPair(i) ==
    /\ pc[i] = "uncalled"
    /\ \E addr \in PairConnectAddrs : \E f \in PairFates(addr) : CallWith(i, i, addr, f)

PairNext ==
    \E i \in Inst : CallPair(i) \/ PollStep(i) \/ ConnectCompletes(i) \/ Drop(i)

PairSpec == Init /\ [][PairNext]_vars

\* ------------------------------------------------------------ properties
Called(i) == pc[i] # "uncalled"

IsPrefix(s, t) == Len(s) <= Len(t) /\ s = SubSeq(t, 1, Len(s))

\* index in the queue given to call of the first address whose connect
\* succeeds, 0 when every connect fails
FirstOk(i) ==
    LET q == desc[i].addrs
        oks == {j \in 1..Len(q) : fate[i][q[j]] = "ok"}
    IN  IF oks = {} THEN 0 ELSE CHOOSE j \in oks : \A k \in oks : j <= k

\* C1: for an Ordered-Queue descriptor the addresses a connect was started
\* on, followed by the remaining queue, are the original queue in every
\* reachable state; the attempts are always a prefix of the original queue.
C1_OrderedAttempts ==
    \A i \in Inst :
        (Called(i) /\ desc[i].kind = "Multi") =>
            /\ IsPrefix(attempts[i], desc[i].addrs)
            /\ variant[i] = "Response" =>
                  /\ addrs[i] # <<>>
                  /\ attempts[i] \o addrs[i][1] = desc[i].addrs

C1_Witness ==
    \E i \in Inst :
        /\ desc[i].kind = "Multi"
        /\ variant[i] = "Response"
        /\ Len(attempts[i]) = 2
        /\ attempts[i][1] # attempts[i][2]
        /\ Len(addrs[i][1]) >= 1

\* C2: for an Ordered-Queue whose k-th address is the first that connects,
\* never more than k attempts are started, they are a1..ak in order, and the
\* future's result is produced exactly when the k-th attempt completes and is
\* Ok(Connection) with the socket of a_k.
C2_FirstSuccessWins ==
    \A i \in Inst :
        (Called(i) /\ desc[i].kind = "Multi" /\ FirstOk(i) >= 1) =>
            LET q == desc[i].addrs
                k == FirstOk(i)
            IN  /\ Len(attempts[i]) <= k
                /\ IsPrefix(attempts[i], q)
                /\ results[i] = IF Len(outcomes[i]) = k
                                THEN <<OkConnection(q[k], given[i])>>
                                ELSE <<>>
                /\ results[i] # <<>> => attempts[i] = SubSeq(q, 1, k)

C2_Witness ==
    \E i \in Inst :
        /\ desc[i].kind = "Multi"
        /\ Len(desc[i].addrs) = 3
        /\ FirstOk(i) = 2
        /\ attempts[i] = SubSeq(desc[i].addrs, 1, 2)
        /\ results[i] = <<OkConnection(desc[i].addrs[2], given[i])>>

\* C3: for a non-empty Ordered-Queue on which every connect fails, the
\* attempts are a1..an in order and the result, produced exactly when the
\* n-th attempt completes, is Err(Io(e)) with the error of a_n.
C3_LastErrorSurfaced ==
    \A i \in Inst :
        (Called(i) /\ desc[i].kind = "Multi" /\ desc[i].addrs # <<>> /\ FirstOk(i) = 0) =>
            LET q == desc[i].addrs
                n == Len(q)
            IN  /\ IsPrefix(attempts[i], q)
                /\ results[i] = IF Len(outcomes[i]) = n THEN <<ErrIo(q[n])>> ELSE <<>>
                /\ results[i] # <<>> => attempts[i] = q

C3_Witness ==
    \E i \in Inst :
        /\ desc[i].kind = "Multi"
        /\ Len(desc[i].addrs) = 3
        /\ desc[i].addrs[3] # desc[i].addrs[1]
        /\ desc[i].addrs[3] # desc[i].addrs[2]
        /\ attempts[i] = desc[i].addrs
        /\ results[i] = <<ErrIo(desc[i].addrs[3])>>

\* C4: for an Unresolved descriptor the future is constructed as the Error
\* variant holding Unresolved, its first poll returns Err(Unresolved), and no
\* connect is ever started.
C4_UnresolvedImmediate ==
    \A i \in Inst :
        (Called(i) /\ desc[i].kind = "None") =>
            /\ attempts[i] = <<>>
            /\ stream[i] = <<>>
            /\ variant[i] \in {"Error", "Dropped"}
            /\ ~polled[i] => results[i] = <<>>
            /\ (~polled[i] /\ variant[i] = "Error") => err[i] = <<"Unresolved">>
            /\ polled[i] => results[i] = <<ErrUnresolved>>

C4_Witness ==
    \E i \in Inst :
        /\ desc[i].kind = "None"
        /\ polled[i]
        /\ attempts[i] = <<>>
        /\ results[i] = <<ErrUnresolved>>

\* C5: for a Single(addr) descriptor exactly one connect is started, to addr,
\* there is no queue, and the result is produced when that attempt completes:
\* Ok(Connection) of its socket and the request given to call when it
\* succeeds, Err(Io(e)) with its error when it fails.
C5_SingleAddress ==
    \A i \in Inst :
        (Called(i) /\ desc[i].kind = "One") =>
            LET a == desc[i].addrs[1]
            IN  /\ attempts[i] = <<a>>
                /\ variant[i] = "Response" => addrs[i] = <<>>
                /\ Len(outcomes[i]) <= 1
                /\ results[i] = IF outcomes[i] = <<>> THEN <<>>
                                ELSE IF fate[i][a] = "ok"
                                THEN <<OkConnection(a, given[i])>>
                                ELSE <<ErrIo(a)>>

C5_Witness ==
    \E i \in Inst :
        /\ desc[i].kind = "One"
        /\ outcomes[i] = <<"err">>
        /\ results[i] = <<ErrIo(desc[i].addrs[1])>>

\* C6: whenever control is at "try to connect" (the pop of the next address)
\* the queue exists and is not empty.
C6_QueueNonEmptyAtPop ==
    \A i \in Inst :
        pc[i] = "try" => (addrs[i] # <<>> /\ addrs[i][1] # <<>>)

\* C7: a request whose descriptor carries no address (Unresolved or an empty
\* queue) starts no connect and every poll of it that has ended delivered
\* Err(Unresolved); Err(Io) is delivered only after some address was tried.
C7_NoCandidatesUnresolved ==
    \A i \in Inst :
        /\ (Called(i) /\ desc[i].addrs = <<>>) =>
              /\ attempts[i] = <<>>
              /\ (polled[i] /\ pc[i] \notin {"loop", "try"}) =>
                    results[i] = <<ErrUnresolved>>
        /\ \A j \in 1..Len(results[i]) :
              results[i][j].tag = "Io" => attempts[i] # <<>>

\* C8: at most one attempt is in flight: every attempt but the latest has
\* completed with a failure, the slot holds the latest attempt, and an
\* attempt that has not completed is the latest one.
C8_OneAttemptInFlight ==
    \A i \in Inst :
        /\ Len(outcomes[i]) <= Len(attempts[i])
        /\ Len(attempts[i]) <= Len(outcomes[i]) + 1
        /\ \A j \in 1..Len(attempts[i]) :
              j < Len(attempts[i]) => (j <= Len(outcomes[i]) /\ outcomes[i][j] = "err")
        /\ (variant[i] = "Response" /\ attempts[i] # <<>>) =>
              /\ stream[i] # <<>>
              /\ stream[i][1].addr = attempts[i][Len(attempts[i])]
              /\ (stream[i][1].st = "done") = (Len(outcomes[i]) = Len(attempts[i]))

C8_Witness ==
    \E i \in Inst :
        /\ Len(attempts[i]) = 2
        /\ outcomes[i] = <<"err">>
        /\ pc[i] = "idle"
        /\ stream[i] # <<>>
        /\ stream[i][1].st = "waiting"
        /\ stream[i][1].polled

\* C9: once the future is dropped its slot is empty (the attempt in flight
\* is released with it) and no step starts a further attempt, completes one
\* or delivers a result.
C9_DropReleases ==
    [][\A i \in Inst :
          (variant[i] = "Dropped" \/ variant'[i] = "Dropped") =>
              /\ variant'[i] = "Dropped"
              /\ stream'[i] = <<>>
              /\ addrs'[i] = <<>>
              /\ attempts'[i] = attempts[i]
              /\ outcomes'[i] = outcomes[i]
              /\ results'[i] = results[i]]_vars

C9_Witness ==
    \E i \in Inst :
        /\ variant[i] = "Dropped"
        /\ desc[i].kind = "Multi"
        /\ Len(attempts[i]) = 2
        /\ Len(outcomes[i]) = 1
        /\ Len(desc[i].addrs) = 3
        /\ results[i] = <<>>
        /\ stream[i] = <<>>

\* C10 as claimed: between the return of call and the first poll no connect
\* has been started, whatever the descriptor.
C10_NoAttemptInCall ==
    \A i \in Inst :
        (Called(i) /\ ~polled[i]) => attempts[i] = <<>>

\* C10 as amended: between the return of call and the first poll nothing has
\* been polled and nothing has completed; for an Ordered-Queue or Unresolved
\* descriptor no connect has been started and the slot is empty, for a
\* Single(addr) descriptor the constructor has started the one connect to
\* addr, which sits unpolled in the slot.
C10_NoPollInCall ==
    \A i \in Inst :
        (Called(i) /\ ~polled[i]) =>
            /\ outcomes[i] = <<>>
            /\ results[i] = <<>>
            /\ desc[i].kind # "One" => (attempts[i] = <<>> /\ stream[i] = <<>>)
            /\ desc[i].kind = "One" =>
                  /\ attempts[i] = desc[i].addrs
                  /\ variant[i] = "Response" =>
                        /\ stream[i] # <<>>
                        /\ stream[i][1].addr = desc[i].addrs[1]
                        /\ ~stream[i][1].polled

C10_Witness ==
    \E i \in Inst :
        /\ pc[i] = "idle"
        /\ ~polled[i]
        /\ desc[i].kind = "One"
        /\ attempts[i] = desc[i].addrs
        /\ stream[i] # <<>>
        /\ ~stream[i][1].polled

\* C12: a poll that returned Pending left an attempt in the slot that this
\* poll itself polled and that had not completed; a poll that returned Ready
\* delivered a result.  The future is never left between polls with a failed
\* attempt in the slot and no result.
C12_PendingOnlyOnAttempt ==
    \A i \in Inst :
        /\ (pc[i] = "idle" /\ lastPoll[i] = "Pending") =>
              /\ stream[i] # <<>>
              /\ stream[i][1].st \in {"waiting", "ready"}
              /\ stream[i][1].polled
              /\ Len(attempts[i]) = Len(outcomes[i]) + 1
              /\ results[i] = <<>>
        /\ (pc[i] = "idle" /\ lastPoll[i] = "Ready") => results[i] # <<>>
        /\ (pc[i] = "idle" /\ polled[i]) => lastPoll[i] \in {"Pending", "Ready"}

C12_Witness ==
    \E i \in Inst :
        /\ pc[i] = "idle"
        /\ lastPoll[i] = "Pending"
        /\ desc[i].kind = "Multi"
        /\ Len(attempts[i]) = 3
        /\ outcomes[i] = <<"err", "err">>
        /\ stream[i][1].polled
        /\ stream[i][1].st = "waiting"

\* C13: a delivered Err(Io) means exhaustion: every address of the descriptor
\* was attempted, every attempt failed and no address remains in the queue;
\* while a failed attempt leaves addresses to try, no result exists.
C13_IoOnlyOnExhaustion ==
    \A i \in Inst :
        /\ \A j \in 1..Len(results[i]) :
              results[i][j].tag = "Io" =>
                  /\ attempts[i] = desc[i].addrs
                  /\ Len(outcomes[i]) = Len(attempts[i])
                  /\ \A k \in 1..Len(outcomes[i]) : outcomes[i][k] = "err"
                  /\ results[i][j] = ErrIo(attempts[i][Len(attempts[i])])
                  /\ variant[i] = "Response" => (addrs[i] = <<>> \/ addrs[i][1] = <<>>)
        /\ (outcomes[i] # <<>> /\ outcomes[i][Len(outcomes[i])] = "err"
               /\ Len(outcomes[i]) < Len(desc[i].addrs)) => results[i] = <<>>

C13_Witness ==
    \E i \in Inst :
        /\ desc[i].kind = "Multi"
        /\ Len(desc[i].addrs) = 2
        /\ desc[i].addrs[1] # desc[i].addrs[2]
        /\ outcomes[i] = <<"err", "err">>
        /\ addrs[i] = <<<<>>>>
        /\ results[i] = <<ErrIo(desc[i].addrs[2])>>

\* C15: while the future lives and has delivered no Ok, it holds the request
\* given to call; the only step that changes the held request is the one that
\* takes it and delivers Ok(Connection) containing that same request, after
\* which the future holds none.
C15_RequestTakenOnce ==
    /\ [](\A i \in Inst :
            variant[i] = "Response" =>
                req[i] = IF \E j \in 1..Len(results[i]) : results[i][j].tag = "Ok"
                         THEN <<>> ELSE <<given[i]>>)
    /\ [][\A i \in Inst :
            (variant[i] = "Response" /\ variant'[i] = "Response" /\ req'[i] # req[i]) =>
                /\ req[i] = <<given[i]>>
                /\ req'[i] = <<>>
                /\ Len(results'[i]) = Len(results[i]) + 1
                /\ results'[i][Len(results'[i])].tag = "Ok"
                /\ results'[i][Len(results'[i])].req = given[i]]_vars

C15_Witness ==
    \E i \in Inst :
        /\ variant[i] = "Response"
        /\ desc[i].kind = "Multi"
        /\ outcomes[i] = <<"err", "err", "ok">>
        /\ req[i] = <<>>
        /\ results[i] = <<OkConnection(desc[i].addrs[3], given[i])>>

\* C17: each future delivers at most one result, and no step taken after the
\* result starts a connect, completes one or delivers a second result.
C17_AtMostOneResult ==
    /\ [](\A i \in Inst : Len(results[i]) <= 1)
    /\ [][\A i \in Inst :
            results[i] # <<>> =>
                /\ results'[i] = results[i]
                /\ attempts'[i] = attempts[i]
                /\ outcomes'[i] = outcomes[i]]_vars

C17_Witness ==
    \E i \in Inst :
        /\ Len(results[i]) = 1
        /\ pc[i] = "panicked"
        /\ lastPoll[i] = "panic"

\* C14: when every started connect completes and the future keeps being
\* polled, every constructed future eventually delivers a result, and never
\* starts more attempts than its descriptor has addresses.
C14_EventuallyResult ==
    \A i \in Inst :
        /\ Called(i) ~> (results[i] # <<>>)
        /\ [](Len(attempts[i]) <= Len(desc[i].addrs))

\* the same, for descriptors other than an empty queue
C14_NonEmptyEventuallyResult ==
    \A i \in Inst :
        /\ (Called(i) /\ (desc[i].kind # "Multi" \/ desc[i].addrs # <<>>))
              ~> (results[i] # <<>>)
        /\ [](Len(attempts[i]) <= Len(desc[i].addrs))

\* everything future i owns or has produced is left as it is
Untouched(i) ==
    /\ variant'[i] = variant[i]
    /\ req'[i] = req[i]
    /\ addrs'[i] = addrs[i]
    /\ stream'[i] = stream[i]
    /\ err'[i] = err[i]
    /\ pc'[i] = pc[i]
    /\ attempts'[i] = attempts[i]
    /\ outcomes'[i] = outcomes[i]
    /\ results'[i] = results[i]

\* C11: with two futures from two connectors interleaved, every step belongs
\* to one future and leaves the other's queue, slot, request, position and
\* results unchanged.
C11_NoSharedState ==
    [][\E j \in Inst : \A i \in Inst \ {j} : Untouched(i)]_vars

C11_Witness ==
    /\ variant[1] = "Response"
    /\ variant[2] = "Response"
    /\ Len(attempts[1]) = 1
    /\ Len(attempts[2]) = 1
    /\ addrs[1] # <<>>
    /\ addrs[2] # <<>>
    /\ Len(addrs[1][1]) = 1
    /\ Len(addrs[2][1]) = 1
    /\ addrs[1] # addrs[2]
    /\ stream[1][1].polled
    /\ stream[2][1].polled

\* the result the descriptor, the transport's answers and the request fix
Expected(d, f, r) ==
    IF d.kind = "None" THEN ErrUnresolved
    ELSE LET q == d.addrs
             oks == {j \in 1..Len(q) : f[q[j]] = "ok"}
         IN  IF oks = {} THEN ErrIo(q[Len(q)])
             ELSE OkConnection(q[CHOOSE j \in oks : \A k \in oks : j <= k], r)

\* C16: a delivered result is the one fixed by the descriptor and the
\* transport's answer for each address (with the request given to call inside
\* an Ok); two futures with the same descriptor and answers that both
\* delivered a result delivered the same one, whatever the polls and
\* completions in between.
C16_ResultDetermined ==
    /\ \A i \in Inst :
          results[i] # <<>> => results[i] = <<Expected(desc[i], fate[i], given[i])>>
    /\ \A i, j \in Inst :
          (desc[i] = desc[j] /\ fate[i] = fate[j] /\ results[i] # <<>> /\ results[j] # <<>>) =>
              /\ results[i][1].tag = results[j][1].tag
              /\ results[i][1].addr = results[j][1].addr

C16_Witness ==
    /\ desc[1] = desc[2]
    /\ fate[1] = fate[2]
    /\ desc[1].kind = "Multi"
    /\ Len(desc[1].addrs) = 2
    /\ suspended[1]
    /\ ~suspended[2]
    /\ results[1] # <<>>
    /\ results[2] # <<>>
    /\ results[1][1].tag = "Ok"
    /\ results[1][1].addr = desc[1].addrs[2]
    /\ results[2][1].addr = results[1][1].addr

====
